---- MODULE Spec2Model ----
(***************************************************************************)
(* MediaFire Batch Downloader v3 (downloader.py): the session loop of      *)
(* main(), process_link with its helpers, and the shutdown prompt.         *)
(* Strings are sequences of one-character strings; the browser, the page   *)
(* and the operator are the environment, whose answers and exceptions are  *)
(* chosen nondeterministically at each blocking call.                      *)
(***************************************************************************)
EXTENDS Integers, Sequences, FiniteSets, TLC

\* Largest number of lines of the input file.
MaxLines == 3

\* ------------------------------------------------------------------------
\*  Strings
\* ------------------------------------------------------------------------
Whitespace == {" ", "\n", "\t"}

RECURSIVE LStrip(_)
LStrip(s) ==
    IF s = <<>> THEN <<>>
    ELSE IF Head(s) \in Whitespace THEN LStrip(Tail(s)) ELSE s

RECURSIVE RStrip(_)
RStrip(s) ==
    IF s = <<>> THEN <<>>
    ELSE IF s[Len(s)] \in Whitespace THEN RStrip(SubSeq(s, 1, Len(s) - 1)) ELSE s

\* str.strip()
Strip(s) == RStrip(LStrip(s))

LowerChar(c) ==
    CASE c = "Y" -> "y"
      [] c = "N" -> "n"
      [] c = "E" -> "e"
      [] c = "S" -> "s"
      [] OTHER   -> c

\* str.lower()
Lower(s) == [i \in 1..Len(s) |-> LowerChar(s[i])]

\* ------------------------------------------------------------------------
\*  Configuration
\* ------------------------------------------------------------------------
DOWNLOAD_BUTTON_SELECTORS ==
    << "a#downloadButton", "a[id='downloadButton']", "a.download_link",
       "div.download_link a", "a[aria-label*='Download']" >>

INVALID_PAGE_TEXTS ==
    { "invalid or deleted", "file not found", "this file has been deleted",
      "unavailable", "error occurred" }

\* The reasons process_link returns (the exception text of the two
\* formatted reasons is left out).
ReasonTimeout  == "Page load timed out"
ReasonNavError == "WebDriver error"
ReasonInvalid  == "MediaFire reports file as invalid or deleted"
ReasonNotFound == "Download button not found on page"
ReasonClick    == "Could not click download button"
ReasonOK       == "OK"

\* ------------------------------------------------------------------------
\*  Exceptions
\* ------------------------------------------------------------------------
NoExc == "none"

ExcParent(e) ==
    CASE e = "TimeoutException"       -> "WebDriverException"
      [] e = "NoSuchElementException" -> "WebDriverException"
      [] e = "WebDriverException"     -> "Exception"
      [] e = "EOFError"               -> "Exception"
      [] e = "Exception"              -> "BaseException"
      [] e = "KeyboardInterrupt"      -> "BaseException"
      [] OTHER                        -> "BaseException"

RECURSIVE IsInstance(_, _)
IsInstance(e, cls) ==
    IF e = cls THEN TRUE
    ELSE IF e = "BaseException" THEN FALSE
    ELSE IsInstance(ExcParent(e), cls)

\* What a call into the browser driver can raise.
DriverRaises == {"TimeoutException", "WebDriverException", "KeyboardInterrupt"}
\* What input() can raise.
InputRaises  == {"EOFError", "KeyboardInterrupt"}

\* ------------------------------------------------------------------------
\*  Input file
\* ------------------------------------------------------------------------
\* The lines readlines() can yield.
LineChoices ==
    { <<"\n">>, <<" ", "\t", "\n">>, <<" ", "u", " ", "\n">> }

RECURSIVE SeqsUpTo(_, _)
SeqsUpTo(S, n) ==
    IF n = 0 THEN {<<>>}
    ELSE LET shorter == SeqsUpTo(S, n - 1)
         IN  shorter \cup {Append(q, x) : q \in {r \in shorter : Len(r) = n - 1}, x \in S}

FileChoices == SeqsUpTo(LineChoices, MaxLines)

\* links = [(i + 1, line.strip()) for i, line in enumerate(raw_lines) if line.strip()]
RECURSIVE ParseLinksFrom(_, _)
ParseLinksFrom(lines, i) ==
    IF i > Len(lines) THEN <<>>
    ELSE IF Strip(lines[i]) # <<>>
         THEN <<[line_no |-> i, url |-> Strip(lines[i])]>> \o ParseLinksFrom(lines, i + 1)
         ELSE ParseLinksFrom(lines, i + 1)

\* Variant: the comprehension without its "if line.strip()" filter.
ParseLinks_KeepBlank(lines) == [i \in 1..Len(lines) |-> [line_no |-> i, url |-> Strip(lines[i])]]

ParseLinks(lines) == ParseLinksFrom(lines, 1)


\* ------------------------------------------------------------------------
\*  Browser windows
\* ------------------------------------------------------------------------
main_handle  == "main"
PopupHandles == {"p1", "p2"}
\* driver.window_handles lists the windows in the order they were opened.
HandleOrder  == <<"main", "p1", "p2">>

HandleList(S) == SelectSeq(HandleOrder, LAMBDA h : h \in S)

\* What the driver answers for one tab: both calls work, switch_to.window
\* raises, or driver.close raises (WebDriverException in both cases).
TabOutcomes == {"ok", "switch_fail", "close_fail"}

\* The body of the for loop of close_popup_tabs for one handle; d is the
\* driver's [handles, focus].
CloseOne(d, handle, keep, out) ==
    IF handle = keep THEN d
    ELSE IF out = "switch_fail" THEN d
    ELSE IF out = "close_fail" THEN [d EXCEPT !.focus = handle]
    ELSE [handles |-> d.handles \ {handle}, focus |-> handle]

\* Variant: the try around the whole for loop, so the first failure ends it.
RECURSIVE CloseLoop_StopAtFailure(_, _, _, _)
CloseLoop_StopAtFailure(d, todo, keep, outcome) ==
    IF todo = <<>> THEN d
    ELSE IF Head(todo) # keep /\ outcome[Head(todo)] # "ok"
         THEN CloseOne(d, Head(todo), keep, outcome[Head(todo)])
         ELSE CloseLoop_StopAtFailure(CloseOne(d, Head(todo), keep, outcome[Head(todo)]),
                                      Tail(todo), keep, outcome)

RECURSIVE CloseLoop(_, _, _, _)
CloseLoop(d, todo, keep, outcome) ==
    IF todo = <<>> THEN d
    ELSE CloseLoop(CloseOne(d, Head(todo), keep, outcome[Head(todo)]),
                   Tail(todo), keep, outcome)

\* close_popup_tabs(driver, keep_handle); final tells whether the last
\* switch_to.window(keep_handle) works.
close_popup_tabs(d, keep, outcome, final) ==
    LET after == CloseLoop(d, HandleList(d.handles), keep, outcome)
    IN  IF final THEN [after EXCEPT !.focus = keep] ELSE after

\* ------------------------------------------------------------------------
\*  Page helpers
\* ------------------------------------------------------------------------
\* A page source is the set of phrases that occur in it.
PageChoices ==
    { {"Download"}, {"File Not Found", "Download"}, {"unavailable"}, {} }

LowerPhrase(p) ==
    CASE p = "File Not Found" -> "file not found"
      [] p = "Download"       -> "download"
      [] OTHER                -> p

is_page_invalid(page) == {LowerPhrase(p) : p \in page} \cap INVALID_PAGE_TEXTS # {}

\* What the page holds for each selector.
ElementStates == {"absent", "hidden", "visible"}
DomChoices    == [1..Len(DOWNLOAD_BUTTON_SELECTORS) -> ElementStates]

\* Variant: the loop without the is_displayed() test.
RECURSIVE FindFrom_Undisplayed(_, _)
FindFrom_Undisplayed(dom, i) ==
    IF i > Len(DOWNLOAD_BUTTON_SELECTORS) THEN 0
    ELSE IF dom[i] # "absent" THEN i
    ELSE FindFrom_Undisplayed(dom, i + 1)

\* The for loop of find_download_button from selector i on: the index of
\* the selector whose element is returned, 0 for None.
RECURSIVE FindFrom(_, _)
FindFrom(dom, i) ==
    IF i > Len(DOWNLOAD_BUTTON_SELECTORS) THEN 0
    ELSE IF dom[i] = "visible" THEN i
    ELSE FindFrom(dom, i + 1)

\* What the page holds for the selectors taken together.
Present(dom) ==
    IF \E i \in DOMAIN dom : dom[i] = "visible" THEN "visible"
    ELSE IF \E i \in DOMAIN dom : dom[i] = "hidden" THEN "hidden"
    ELSE "absent"

\* Variant: find_download_button without the is_displayed() test.
find_download_button_Undisplayed(dom) == FindFrom_Undisplayed(dom, 1)

find_download_button(dom) == FindFrom(dom, 1)

\* ------------------------------------------------------------------------
\*  Operator
\* ------------------------------------------------------------------------
\* What the operator can type at the shutdown prompt.
AnswerChoices ==
    { <<>>, <<" ">>, <<"y">>, <<" ", "Y", " ">>, <<"n">>, <<"N">>,
      <<"y", "e", "s">> }

Unset == <<"<unset>">>

\* Variant: the empty answer taken as the default "yes".
IsAffirmative_EmptyToo(ans) == ans \in {<<"y">>, <<>>}

\* if answer == "y": break
IsAffirmative(ans) == ans = <<"y">>


\* ------------------------------------------------------------------------
\*  State
\* ------------------------------------------------------------------------
VARIABLES
    file_exists,     \* os.path.isfile(links_file)
    raw_lines,       \* the lines of the input file
    links,           \* main: links
    pc,              \* where main() is
    idx,             \* main: idx, the 1-based position in links
    build_calls,     \* how often build_driver was called
    session,         \* the browser session: "none", "open", "closed" (driver.quit)
    window_handles,  \* driver.window_handles
    focus,           \* the window the driver is switched to
    success_count,   \* main: success_count
    failed_links,    \* main: failed_links
    answer,          \* main: answer
    exit_code,       \* the process's exit code, -1 while it runs
    cur,             \* what happened so far to the link being processed
    navLog,          \* line numbers of the links driver.get was called for
    ackLog,          \* line numbers of the links acknowledged by the operator
    interruptedAt,   \* the phase of the loop KeyboardInterrupt was raised in
    reaped           \* the last close_popup_tabs call, until the next step

vars == << file_exists, raw_lines, links, pc, idx, build_calls, session,
           window_handles, focus, success_count, failed_links, answer,
           exit_code, cur, navLog, ackLog, interruptedAt, reaped >>

total     == Len(links)
processed == success_count + Len(failed_links)
driver    == [handles |-> window_handles, focus |-> focus]

NewCur ==
    [ navs |-> 0, nav |-> NoExc, reaps |-> 0, unreaped |-> FALSE,
      invalid |-> FALSE, waited |-> "no", finds |-> 0, found |-> "no",
      clicks |-> 0, click |-> NoExc ]

NoReap ==
    [ valid |-> FALSE, before |-> {}, outcome |-> [h \in PopupHandles |-> "ok"],
      final |-> TRUE ]

Init ==
    /\ file_exists \in BOOLEAN
    /\ raw_lines \in (IF file_exists THEN FileChoices ELSE {<<>>})
    /\ links = <<>>
    /\ pc = "start"
    /\ idx = 0
    /\ build_calls = 0
    /\ session = "none"
    /\ window_handles = {}
    /\ focus = main_handle
    /\ success_count = 0
    /\ failed_links = <<>>
    /\ answer = Unset
    /\ exit_code = -1
    /\ cur = NewCur
    /\ navLog = <<>>
    /\ ackLog = <<>>
    /\ interruptedAt = "none"
    /\ reaped = NoReap

\* ------------------------------------------------------------------------
\*  main(): how a step of the loop body ends
\* ------------------------------------------------------------------------
\* The phase of the loop body a position belongs to.
Phase(at) == IF at = "ack" THEN "prompt" ELSE "process_link"

\* Where KeyboardInterrupt was raised, when the call at pc raises exc.
Interrupted(exc) == IF exc = "KeyboardInterrupt" THEN Phase(pc) ELSE interruptedAt

\* The step goes on inside process_link; c is the link's record after it.
Goto(label, c) ==
    /\ pc' = label
    /\ cur' = c
    /\ UNCHANGED <<success_count, failed_links, exit_code>>

\* An exception that nothing catches: the traceback, exit code 1.
Crash ==
    /\ pc' = "crashed"
    /\ exit_code' = 1
    /\ cur' = NewCur
    /\ UNCHANGED <<success_count, failed_links>>

\* Variant: the loop without its except KeyboardInterrupt.
Raise_Uncaught(exc) == Crash

\* An exception leaves the loop body: main's try ... except KeyboardInterrupt.
Raise(exc) ==
    IF IsInstance(exc, "KeyboardInterrupt")
    THEN /\ pc' = "shutdown"
         /\ cur' = NewCur
         /\ UNCHANGED <<success_count, failed_links, exit_code>>
    ELSE Crash

\* Variant: the failure branch without its input().
Return_NoAckOnFailure(success, reason, c) ==
    /\ success_count' = IF success THEN success_count + 1 ELSE success_count
    /\ failed_links' =
          IF success THEN failed_links
          ELSE Append(failed_links,
                      [line_no |-> links[idx].line_no, url |-> links[idx].url,
                       reason |-> reason])
    /\ pc' = IF success THEN "ack" ELSE "loop"
    /\ cur' = c
    /\ UNCHANGED exit_code

\* Variant: a failed link is tried a second time instead of being recorded.
Return_Retry(success, reason, c) ==
    /\ success_count' = IF success THEN success_count + 1 ELSE success_count
    /\ failed_links' = failed_links
    /\ pc' = IF success \/ c.navs > 1 THEN "ack" ELSE "get"
    /\ cur' = c
    /\ UNCHANGED exit_code

\* process_link returns (success, reason): main records the outcome and
\* goes to the prompt of its branch.
Return(success, reason, c) ==
    /\ success_count' = IF success THEN success_count + 1 ELSE success_count
    /\ failed_links' =
          IF success THEN failed_links
          ELSE Append(failed_links,
                      [line_no |-> links[idx].line_no, url |-> links[idx].url,
                       reason |-> reason])
    /\ pc' = "ack"
    /\ cur' = c
    /\ UNCHANGED exit_code

\* ------------------------------------------------------------------------
\*  process_link: what each step does with the answer of its call
\* ------------------------------------------------------------------------
\* try: driver.get(url) / except TimeoutException / except WebDriverException
AfterGet(exc, c) ==
    IF exc = NoExc THEN Goto("reap1", c)
    ELSE IF IsInstance(exc, "TimeoutException") THEN Return(FALSE, ReasonTimeout, c)
    ELSE IF IsInstance(exc, "WebDriverException") THEN Return(FALSE, ReasonNavError, c)
    ELSE Raise(exc)

\* Variant: the invalid-page test without its return.
AfterValidate_GoOn(invalid, c) == Goto("wait", c)

\* if is_page_invalid(driver): return False, ...
AfterValidate(invalid, c) ==
    IF invalid THEN Return(FALSE, ReasonInvalid, c) ELSE Goto("wait", c)

\* try: WebDriverWait(...).until(...) / except TimeoutException: pass
AfterWait(exc, c) ==
    IF exc = NoExc \/ IsInstance(exc, "TimeoutException") THEN Goto("find", c)
    ELSE Raise(exc)

\* if btn is None: return False, ...
AfterFind(btn, c) ==
    IF btn = 0 THEN Return(FALSE, ReasonNotFound, c) ELSE Goto("click", c)

\* Variant: return True right after the click, without the second close_popup_tabs.
AfterClick_NoReap(exc, c) ==
    IF exc = NoExc THEN Return(TRUE, ReasonOK, c)
    ELSE IF IsInstance(exc, "Exception") THEN Return(FALSE, ReasonClick, c)
    ELSE Raise(exc)

\* try: btn.click() / except Exception
AfterClick(exc, c) ==
    IF exc = NoExc THEN Goto("sleep", c)
    ELSE IF IsInstance(exc, "Exception") THEN Return(FALSE, ReasonClick, c)
    ELSE Raise(exc)

\* ------------------------------------------------------------------------
\*  Actions
\* ------------------------------------------------------------------------
\* Variant: main without the "if total == 0: sys.exit(0)".
ReadLinks_NoEarlyExit ==
    /\ pc = "start"
    /\ links' = IF file_exists THEN ParseLinks(raw_lines) ELSE links
    /\ pc' = IF file_exists THEN "launch" ELSE "exited"
    /\ exit_code' = IF ~file_exists THEN 1 ELSE exit_code
    /\ UNCHANGED << file_exists, raw_lines, idx, build_calls, session,
                    window_handles, focus, success_count, failed_links, answer,
                    cur, navLog, ackLog, interruptedAt, reaped >>

\* main, from the start to the launch of the browser: the file is looked
\* up and read, and the links are taken from its lines.
ReadLinks ==
    /\ pc = "start"
    /\ links' = IF file_exists THEN ParseLinks(raw_lines) ELSE links
    /\ pc' = IF file_exists /\ Len(links') > 0 THEN "launch" ELSE "exited"
    /\ exit_code' = IF ~file_exists THEN 1
                    ELSE IF Len(links') = 0 THEN 0 ELSE exit_code
    /\ UNCHANGED << file_exists, raw_lines, idx, build_calls, session,
                    window_handles, focus, success_count, failed_links, answer,
                    cur, navLog, ackLog, interruptedAt, reaped >>

\* driver = build_driver(); main_handle = driver.current_window_handle
BuildDriver ==
    /\ pc = "launch"
    /\ build_calls' = build_calls + 1
    /\ \E exc \in {NoExc, "WebDriverException"} :
          IF exc = NoExc
          THEN /\ session' = "open"
               /\ window_handles' = {main_handle}
               /\ focus' = main_handle
               /\ Goto("loop", cur)
          ELSE /\ Crash
               /\ UNCHANGED <<session, window_handles, focus>>
    /\ UNCHANGED << file_exists, raw_lines, links, idx, answer, navLog,
                    ackLog, interruptedAt, reaped >>

\* for idx, (line_no, url) in enumerate(links, start=1)
LoopHead ==
    /\ pc = "loop"
    /\ IF idx < total
       THEN /\ idx' = idx + 1
            /\ Goto("get", NewCur)
       ELSE /\ idx' = idx
            /\ Goto("shutdown", NewCur)
    /\ UNCHANGED << file_exists, raw_lines, links, build_calls, session,
                    window_handles, focus, answer, navLog, ackLog, interruptedAt,
                    reaped >>

\* process_link: driver.get(url); the page may open popups while it loads.
Navigate ==
    /\ pc = "get"
    /\ \E exc \in {NoExc} \cup DriverRaises, spawned \in SUBSET PopupHandles :
          /\ window_handles' = window_handles \cup spawned
          /\ interruptedAt' = Interrupted(exc)
          /\ AfterGet(exc, [cur EXCEPT !.navs = @ + 1, !.nav = exc, !.unreaped = TRUE])
    /\ navLog' = Append(navLog, links[idx].line_no)
    /\ UNCHANGED << file_exists, raw_lines, links, idx, build_calls, session,
                    focus, answer, ackLog, reaped >>

\* The driver after one call of close_popup_tabs(driver, main_handle), and
\* the record of the call.
Reap(outcome, final) ==
    /\ window_handles' = close_popup_tabs(driver, main_handle, outcome, final).handles
    /\ focus' = close_popup_tabs(driver, main_handle, outcome, final).focus
    /\ reaped' = [valid |-> TRUE, before |-> window_handles,
                  outcome |-> outcome, final |-> final]

\* process_link: close_popup_tabs after the page load.
ReapAfterLoad ==
    /\ pc = "reap1"
    /\ \E exc \in {NoExc, "WebDriverException", "KeyboardInterrupt"} :
          /\ interruptedAt' = Interrupted(exc)
          /\ IF exc = NoExc
             THEN \E outcome \in [PopupHandles -> TabOutcomes], final \in BOOLEAN :
                  /\ Reap(outcome, final)
                  /\ Goto("validate", [cur EXCEPT !.reaps = @ + 1, !.unreaped = FALSE])
             ELSE /\ Raise(exc)
                  /\ UNCHANGED <<window_handles, focus, reaped>>
    /\ UNCHANGED << file_exists, raw_lines, links, idx, build_calls, session,
                    answer, navLog, ackLog >>

\* process_link: is_page_invalid(driver)
Validate ==
    /\ pc = "validate"
    /\ \E exc \in {NoExc, "WebDriverException", "KeyboardInterrupt"} :
          /\ interruptedAt' = Interrupted(exc)
          /\ IF exc = NoExc
             THEN \E page \in PageChoices :
                  AfterValidate(is_page_invalid(page),
                                [cur EXCEPT !.invalid = is_page_invalid(page)])
             ELSE Raise(exc)
    /\ reaped' = NoReap
    /\ UNCHANGED << file_exists, raw_lines, links, idx, build_calls, session,
                    window_handles, focus, answer, navLog, ackLog >>

\* process_link: the wait for the first selector.
WaitForButton ==
    /\ pc = "wait"
    /\ \E exc \in {NoExc} \cup DriverRaises :
          /\ interruptedAt' = Interrupted(exc)
          /\ AfterWait(exc, [cur EXCEPT !.waited = exc])
    /\ UNCHANGED << file_exists, raw_lines, links, idx, build_calls, session,
                    window_handles, focus, answer, navLog, ackLog, reaped >>

\* process_link: btn = find_download_button(driver)
FindButton ==
    /\ pc = "find"
    /\ \E exc \in {NoExc, "WebDriverException", "KeyboardInterrupt"} :
          /\ interruptedAt' = Interrupted(exc)
          /\ IF exc = NoExc
             THEN \E dom \in DomChoices :
                  AfterFind(find_download_button(dom),
                            [cur EXCEPT !.finds = @ + 1, !.found = Present(dom)])
             ELSE Raise(exc)
    /\ UNCHANGED << file_exists, raw_lines, links, idx, build_calls, session,
                    window_handles, focus, answer, navLog, ackLog, reaped >>

\* process_link: btn.click(); the click may open popups.
Click ==
    /\ pc = "click"
    /\ \E exc \in {NoExc, "WebDriverException", "KeyboardInterrupt"},
          spawned \in SUBSET PopupHandles :
          /\ window_handles' = window_handles \cup spawned
          /\ interruptedAt' = Interrupted(exc)
          /\ AfterClick(exc, [cur EXCEPT !.clicks = @ + 1, !.click = exc, !.unreaped = TRUE])
    /\ UNCHANGED << file_exists, raw_lines, links, idx, build_calls, session,
                    focus, answer, navLog, ackLog, reaped >>

\* process_link: time.sleep(1.5)
Sleep ==
    /\ pc = "sleep"
    /\ \E exc \in {NoExc, "KeyboardInterrupt"} :
          /\ interruptedAt' = Interrupted(exc)
          /\ IF exc = NoExc THEN Goto("reap2", cur) ELSE Raise(exc)
    /\ UNCHANGED << file_exists, raw_lines, links, idx, build_calls, session,
                    window_handles, focus, answer, navLog, ackLog, reaped >>

\* process_link: close_popup_tabs after the click, and return True, "OK".
ReapAfterClick ==
    /\ pc = "reap2"
    /\ \E exc \in {NoExc, "WebDriverException", "KeyboardInterrupt"} :
          /\ interruptedAt' = Interrupted(exc)
          /\ IF exc = NoExc
             THEN \E outcome \in [PopupHandles -> TabOutcomes], final \in BOOLEAN :
                  /\ Reap(outcome, final)
                  /\ Return(TRUE, ReasonOK, [cur EXCEPT !.reaps = @ + 1, !.unreaped = FALSE])
             ELSE /\ Raise(exc)
                  /\ UNCHANGED <<window_handles, focus, reaped>>
    /\ UNCHANGED << file_exists, raw_lines, links, idx, build_calls, session,
                    answer, navLog, ackLog >>

\* main: input("Press ENTER ...") of either branch.
Acknowledge ==
    /\ pc = "ack"
    /\ \E exc \in {NoExc} \cup InputRaises :
          /\ interruptedAt' = Interrupted(exc)
          /\ IF exc = NoExc
             THEN /\ ackLog' = Append(ackLog, links[idx].line_no)
                  /\ Goto("loop", cur)
             ELSE /\ Raise(exc)
                  /\ UNCHANGED ackLog
    /\ reaped' = NoReap
    /\ UNCHANGED << file_exists, raw_lines, links, idx, build_calls, session,
                    window_handles, focus, answer, navLog >>

\* main: one round of the while True loop of the shutdown prompt; on "y"
\* driver.quit() and the summary follow.
ShutdownPrompt ==
    /\ pc = "shutdown"
    /\ \E exc \in {NoExc} \cup InputRaises :
          IF exc = NoExc
          THEN \E typed \in AnswerChoices :
               /\ answer' = Lower(Strip(typed))
               /\ IF IsAffirmative(answer')
                  THEN /\ session' = "closed"
                       /\ pc' = "done"
                       /\ exit_code' = 0
                  ELSE UNCHANGED <<session, pc, exit_code>>
               /\ UNCHANGED <<success_count, failed_links, cur>>
          ELSE /\ Crash
               /\ UNCHANGED <<answer, session>>
    /\ UNCHANGED << file_exists, raw_lines, links, idx, build_calls,
                    window_handles, focus, navLog, ackLog, interruptedAt, reaped >>

Next ==
    \/ ReadLinks
    \/ BuildDriver
    \/ LoopHead
    \/ Navigate
    \/ ReapAfterLoad
    \/ Validate
    \/ WaitForButton
    \/ FindButton
    \/ Click
    \/ Sleep
    \/ ReapAfterClick
    \/ Acknowledge
    \/ ShutdownPrompt

Spec == Init /\ [][Next]_vars


\* ------------------------------------------------------------------------
\*  Properties
\* ------------------------------------------------------------------------
\* The line numbers of the lines that hold a character other than whitespace.
NonBlankLineNos(lines) ==
    SelectSeq([i \in 1..Len(lines) |-> i],
              LAMBDA i : \E j \in 1..Len(lines[i]) : lines[i][j] \notin Whitespace)

NonBlankCount(lines) == Len(NonBlankLineNos(lines))

IsPrefix(p, q) == Len(p) <= Len(q) /\ p = SubSeq(q, 1, Len(p))

NoDuplicates(q) == \A i, j \in 1..Len(q) : i # j => q[i] # q[j]

LoopPcs == {"get", "reap1", "validate", "wait", "find", "click", "sleep", "reap2", "ack"}

\* The failure the environment caused for the link being processed, as the
\* reason it is to be reported with; "none" when there is none so far.
Fault(c) ==
    IF c.nav = "TimeoutException" THEN ReasonTimeout
    ELSE IF c.nav = "WebDriverException" THEN ReasonNavError
    ELSE IF c.invalid THEN ReasonInvalid
    ELSE IF c.finds > 0 /\ c.found # "visible" THEN ReasonNotFound
    ELSE IF c.click = "WebDriverException" THEN ReasonClick
    ELSE "none"

ThisLink(reason) ==
    [line_no |-> links[idx].line_no, url |-> links[idx].url, reason |-> reason]

\* C1: the browser session is closed only after the answer "y" (stripped
\* and lowercased) at the shutdown prompt; any other answer leaves main at
\* the prompt with the session open.
C1_CloseOnlyOnYes ==
    /\ [](session = "closed" => (answer = <<"y">> /\ pc = "done"))
    /\ [][(pc = "shutdown" /\ pc' # "crashed" /\ answer' # <<"y">>)
            => (pc' = "shutdown" /\ session' = "open")]_vars

C1_Witness ==
    pc = "shutdown" /\ answer = <<>> /\ session = "open"

\* C2: when the loop has ended, the number of recorded outcomes is the
\* number of non-blank lines if the loop was not interrupted, and the number
\* of links processed before the interruption if it was.
C2_OutcomeCount ==
    pc \in {"shutdown", "done"} =>
        processed = (IF interruptedAt = "none" THEN NonBlankCount(raw_lines)
                     ELSE IF interruptedAt = "prompt" THEN idx
                     ELSE idx - 1)

C2_Witness ==
    /\ pc = "done"
    /\ interruptedAt = "none"
    /\ Len(raw_lines) = 3
    /\ success_count = 1
    /\ Len(failed_links) = 1

\* C3: a failure of one link (navigation timeout, navigation error, invalid
\* page, control not found, activation error) is recorded once with its
\* reason, driver.get is called once for the link, and the loop goes on to
\* the prompt and then to the next link or the end of the list.
C3_FailureIsTerminalForLink ==
    /\ [](/\ NoDuplicates(navLog)
          /\ Fault(cur) # "none" =>
                /\ pc \in {"ack", "loop"}
                /\ cur.navs = 1
                /\ processed = idx
                /\ failed_links # <<>>
                /\ failed_links[Len(failed_links)] = ThisLink(Fault(cur))
                /\ \A k \in 1..(Len(failed_links) - 1) :
                      failed_links[k].line_no < links[idx].line_no)
    /\ [][(pc = "loop" /\ pc' # "loop")
            => IF idx < total THEN pc' = "get" /\ idx' = idx + 1
               ELSE pc' = "shutdown"]_vars

C3_Witness ==
    /\ pc = "get"
    /\ idx = 2
    /\ Len(failed_links) = 1
    /\ failed_links[1].reason = ReasonTimeout

\* C4: a KeyboardInterrupt raised in the loop, in process_link or at the
\* prompt after it, ends the loop at the shutdown prompt with the session
\* open and the recorded outcomes as they were.
C4_InterruptIsGraceful ==
    [][(interruptedAt = "none" /\ interruptedAt' # "none")
         => /\ pc \in LoopPcs
            /\ pc' = "shutdown"
            /\ session' = "open"
            /\ success_count' = success_count
            /\ failed_links' = failed_links]_vars

C4_Witness ==
    /\ pc = "shutdown"
    /\ interruptedAt = "process_link"
    /\ answer = Unset
    /\ session = "open"
    /\ success_count = 1
    /\ Len(failed_links) = 1

\* C5: links are navigated to in file order, and the navigation of a link
\* starts only after the one acknowledgment of the link before it.
C5_OneAckBetweenNavigations ==
    /\ IsPrefix(navLog, NonBlankLineNos(raw_lines))
    /\ IsPrefix(ackLog, navLog)
    /\ Len(navLog) <= Len(ackLog) + 1

C5_Witness ==
    /\ Len(navLog) = 2
    /\ Len(ackLog) = 1
    /\ Len(failed_links) = 1
    /\ navLog[2] = 3

\* C6: find_download_button and click are reached only for a link whose
\* navigation succeeded and whose page was not flagged invalid.
C6_SearchOnlyOnValidPage ==
    /\ (cur.finds > 0 \/ cur.clicks > 0 \/ pc \in {"wait", "find", "click", "sleep", "reap2"})
          => (cur.navs = 1 /\ cur.nav = NoExc /\ ~cur.invalid)
    /\ (cur.nav \in {"TimeoutException", "WebDriverException"} \/ cur.invalid)
          => (cur.finds = 0 /\ cur.clicks = 0)

C6_Witness ==
    pc = "ack" /\ cur.invalid /\ cur.finds = 0 /\ cur.clicks = 0

\* C7: when no selector resolves to a visible element, process_link
\* returns failure with the not-found reason and does not click, also after
\* a wait that timed out.
C7_NotFoundNoClick ==
    (cur.finds > 0 /\ cur.found \in {"absent", "hidden"})
        => /\ pc \in {"ack", "loop"}
           /\ cur.clicks = 0
           /\ failed_links # <<>>
           /\ failed_links[Len(failed_links)] = ThisLink(ReasonNotFound)

C7_Witness ==
    /\ pc = "ack"
    /\ cur.finds = 1
    /\ cur.found = "hidden"
    /\ cur.waited = "TimeoutException"

\* C8: a file without a non-blank line ends the program with exit code 0,
\* no outcome, no call of build_driver and no shutdown prompt.
C8_EmptyFileExits ==
    (pc # "start" /\ file_exists /\ NonBlankCount(raw_lines) = 0)
        => /\ pc = "exited"
           /\ exit_code = 0
           /\ build_calls = 0
           /\ session = "none"
           /\ processed = 0
           /\ navLog = <<>>
           /\ answer = Unset

C8_Witness ==
    pc = "exited" /\ exit_code = 0 /\ Len(raw_lines) = 2

\* C9 as stated: when process_link has returned, on whatever path,
\* close_popup_tabs was called after every navigation and after every click.
C9_ReapOnEveryPath ==
    pc = "ack" => (~cur.unreaped /\ cur.reaps = cur.navs + cur.clicks)

\* C9 as amended: close_popup_tabs is called after a driver.get that did not
\* raise and after a click that did not raise; when driver.get or the click
\* raises, process_link returns without calling it.
C9_ReapAfterCompletedCalls ==
    /\ pc = "ack" =>
          /\ cur.unreaped <=> (cur.nav # NoExc \/ cur.click # NoExc)
          /\ cur.reaps = (IF cur.nav = NoExc THEN 1 ELSE 0)
                         + (IF cur.clicks = 1 /\ cur.click = NoExc THEN 1 ELSE 0)
    /\ pc \in {"validate", "wait", "find", "click"} => (cur.reaps = 1 /\ ~cur.unreaped)

C9_Witness ==
    /\ pc = "ack"
    /\ cur.click = "WebDriverException"
    /\ cur.unreaped
    /\ cur.reaps = 1

\* C10 as stated: after close_popup_tabs only the main window is open and
\* it has the focus.
C10_AllPopupsClosed ==
    reaped.valid => (window_handles = {main_handle} /\ focus = main_handle)

\* C10 as amended: after close_popup_tabs the main window is open, the
\* windows left besides it are those whose switch or close raised, whatever
\* happened to the tabs before them, and the focus is on the main window if
\* the last switch worked.
C10_ClosedUnlessFailed ==
    reaped.valid =>
        /\ main_handle \in window_handles
        /\ window_handles =
              {h \in reaped.before : h = main_handle \/ reaped.outcome[h] # "ok"}
        /\ reaped.final => focus = main_handle

C10_Witness ==
    /\ reaped.valid
    /\ reaped.before = {"main", "p1", "p2"}
    /\ reaped.outcome["p1"] = "close_fail"
    /\ reaped.outcome["p2"] = "ok"
    /\ window_handles = {"main", "p1"}

====
